---- MODULE Spec2Model ----
(***************************************************************************)
(* A model of SiameseRPNHead (mmtrack/models/track_heads/                  *)
(* siamese_rpn_head.py): the lazily cached anchors and windows, the        *)
(* positive-pair and negative-pair target procedures, get_targets, the     *)
(* flattening done by loss() and get_bbox(), and the box selection and     *)
(* smoothing of get_bbox().                                                *)
(*                                                                         *)
(* Numbers.  Coordinates, weights and regression deltas are exact          *)
(* rationals <<n, d>> (d > 0, lowest terms).  A log-scale delta dw is      *)
(* kept as the rational exp(dw), so that encode and decode stay exact.     *)
(* Scores, penalties and window values, which the code obtains from exp,   *)
(* sqrt and cos, are fixed-point numbers with FP units to 1.               *)
(* Tensors are functions over 0..n-1, indexed as the code indexes them.    *)
(***************************************************************************)
EXTENDS Integers, Sequences, FiniteSets, TLC

VARIABLES
    cfg,        \* the head's construction-time configuration (never changes)
    anchors,    \* the attribute self.anchors: [has, val]
    windows,    \* the attribute self.windows: [has, val]
    out         \* what the last call returned (or that it raised)

vars == <<cfg, anchors, windows, out>>

----------------------------------------------------------------------------
(* Bounds of the model *)

MaxBatch == 2       \* samples in a batch (where batches are modelled)
MaxNumNeg == 1      \* train_cfg.num_neg ranges over 1..MaxNumNeg
SamplerNum == 4     \* sampler.num

----------------------------------------------------------------------------
(* Integer and rational arithmetic *)

Abs(x) == IF x < 0 THEN -x ELSE x
Min(a, b) == IF a < b THEN a ELSE b
Max(a, b) == IF a > b THEN a ELSE b

RECURSIVE Gcd(_, _)
Gcd(a, b) == IF b = 0 THEN a ELSE Gcd(b, a % b)

\* n/d in lowest terms with a positive denominator (d # 0)
Rat(n, d) ==
    LET g == Gcd(Abs(n), Abs(d))
        s == IF d < 0 THEN -1 ELSE 1
    IN  <<(s * n) \div g, (s * d) \div g>>

RInt(n) == <<n, 1>>
R0 == RInt(0)
R1 == RInt(1)
RAdd(a, b) == Rat(a[1] * b[2] + b[1] * a[2], a[2] * b[2])
RSub(a, b) == Rat(a[1] * b[2] - b[1] * a[2], a[2] * b[2])
RMul(a, b) == Rat(a[1] * b[1], a[2] * b[2])
RDiv(a, b) == Rat(a[1] * b[2], a[2] * b[1])
RLt(a, b) == a[1] * b[2] < b[1] * a[2]
RLe(a, b) == a[1] * b[2] <= b[1] * a[2]

\* ceil(n/d) and floor(n/d) for d > 0
FloorDiv(n, d) == n \div d
CeilDiv(n, d) == -((-n) \div d)

\* the number of elements of a tensor held as a function over 0..n-1
Numel(t) == Cardinality(DOMAIN t)

RECURSIVE RSumOver(_, _)
RSumOver(t, S) ==
    IF S = {} THEN R0
    ELSE LET i == CHOOSE j \in S : TRUE
         IN  RAdd(t[i], RSumOver(t, S \ {i}))

----------------------------------------------------------------------------
(* The anchor generator (external: AnchorGenerator.grid_priors) and the   *)
(* cached, re-centered anchors                                             *)

\* flat index of base anchor a of cell (h, w): labels.view(H, W, -1)
FlatIndex(h, w, a, W, A) == (h * W + w) * A + a

\* grid_priors([size])[0]: base anchors shifted to every cell, row-major,
\* the base anchor index running fastest
GridPriors(size) ==
    LET H == size[1]
        W == size[2]
        A == cfg.A
    IN  [i \in 0..(H * W * A - 1) |->
            LET a == i % A
                w == (i \div A) % W
                h == i \div (A * W)
                b == cfg.base[a + 1]
                dx == w * cfg.stride[1]
                dy == h * cfg.stride[2]
            IN  <<b[1] + dx, b[2] + dy, b[3] + dx, b[4] + dy>>]

\* self.anchors[:, 0:4:2] -= (feat_w // 2) * stride_w, and the same for y
Recenter(anc, size) ==
    LET ox == (size[2] \div 2) * cfg.stride[1]
        oy == (size[1] \div 2) * cfg.stride[2]
    IN  [i \in DOMAIN anc |->
            <<anc[i][1] - ox, anc[i][2] - oy, anc[i][3] - ox, anc[i][4] - oy>>]

\* the anchors a head holds right after populating its cache for `size`
PopulateAnchors(size) == Recenter(GridPriors(size), size)

NoAttr == [has |-> FALSE, val |-> <<>>]
Attr(v) == [has |-> TRUE, val |-> v]

\* `if not hasattr(self, 'anchors'): self.anchors = ...`
AnchorsAfter(cache, size) == IF cache.has THEN cache ELSE Attr(PopulateAnchors(size))

----------------------------------------------------------------------------
(* Boxes and the box coder (DeltaXYWHBBoxCoder, means 0, stds 1)          *)

\* an integer box as a rational box
RBox(b) == <<RInt(b[1]), RInt(b[2]), RInt(b[3]), RInt(b[4])>>

\* bbox_xyxy_to_cxcywh
XyxyToCxcywh(b) ==
    LET x1 == b[1]
        y1 == b[2]
        x2 == b[3]
        y2 == b[4]
    IN  <<RMul(RAdd(x1, x2), <<1, 2>>), RMul(RAdd(y1, y2), <<1, 2>>),
          RSub(x2, x1), RSub(y2, y1)>>

\* bbox_coder.encode(prior, gt): <<dx, dy, exp(dw), exp(dh)>>
Encode(prior, gt) ==
    LET p == XyxyToCxcywh(RBox(prior))
        g == XyxyToCxcywh(RBox(gt))
    IN  <<RDiv(RSub(g[1], p[1]), p[3]), RDiv(RSub(g[2], p[2]), p[4]),
          RDiv(g[3], p[3]), RDiv(g[4], p[4])>>

\* bbox_coder.decode(prior, delta) with delta = <<dx, dy, exp(dw), exp(dh)>>
Decode(prior, delta) ==
    LET p == XyxyToCxcywh(RBox(prior))
        gx == RAdd(p[1], RMul(p[3], delta[1]))
        gy == RAdd(p[2], RMul(p[4], delta[2]))
        gw == RMul(p[3], delta[3])
        gh == RMul(p[4], delta[4])
        hw == RMul(gw, <<1, 2>>)
        hh == RMul(gh, <<1, 2>>)
    IN  <<RSub(gx, hw), RSub(gy, hh), RAdd(gx, hw), RAdd(gy, hh)>>

\* a zero row of bbox_weights (new_zeros((num_anchors, 4)))
Zero4 == <<R0, R0, R0, R0>>
\* a zero row of bbox_targets: dx = dy = dw = dh = 0, held as exp(0) = 1
ZeroDelta == <<R0, R0, R1, R1>>

----------------------------------------------------------------------------
(* _get_init_targets *)

InitTargets(size) ==
    LET n == size[1] * size[2] * cfg.A
    IN  [labels |-> [i \in 0..(n - 1) |-> 0],
         labels_weights |-> [i \in 0..(n - 1) |-> R0],
         bbox_targets |-> [i \in 0..(n - 1) |-> ZeroDelta],
         bbox_weights |-> [i \in 0..(n - 1) |-> Zero4]]

\* tensor[inds] = value for an index set inside the tensor
Assign(t, inds, value) == [i \in DOMAIN t |-> IF i \in inds THEN value ELSE t[i]]

\* what a call that raised leaves behind: no targets, and the exception
Raised(kind, why, used) ==
    [kind |-> kind, ok |-> FALSE, why |-> why, labels |-> <<>>, labels_weights |-> <<>>,
     bbox_targets |-> <<>>, bbox_weights |-> <<>>, pos_inds |-> {},
     neg_inds |-> {}, cells |-> {}, pool |-> {}, center |-> <<0, 0>>, used |-> used]

----------------------------------------------------------------------------
(* The assigner and the sampler (external): disjoint positive and negative *)
(* indices into the priors they were given                                 *)

Range(s) == {s[i] : i \in DOMAIN s}

InjSeqs(S, k) ==
    UNION {{s \in [1..m -> S] : \A i, j \in 1..m : i < j => s[i] # s[j]} : m \in 0..k}

\* int(self.sampler.num * self.sampler.pos_fraction)
NumExpectedPos == FloorDiv(cfg.sampler_num * cfg.pos_fraction[1], cfg.pos_fraction[2])

\* sampling_result.pos_inds (a set: only its members and its length are
\* used) and sampling_result.neg_inds (in the sampler's order) over n priors
SamplerOutcomes(n) ==
    UNION {{[pos |-> P, neg |-> s] :
                s \in InjSeqs((0..(n - 1)) \ P, cfg.sampler_num - Cardinality(P))} :
           P \in {Q \in SUBSET (0..(n - 1)) : Cardinality(Q) <= NumExpectedPos}}

----------------------------------------------------------------------------
(* _get_positive_pair_targets, given the anchors read from the cache and   *)
(* the sampler's result                                                    *)

\* int(self.sampler.num * (1 - self.sampler.pos_fraction))
NegUpperBound ==
    FloorDiv(cfg.sampler_num * (cfg.pos_fraction[2] - cfg.pos_fraction[1]),
             cfg.pos_fraction[2])

\* anchors = self.anchors.clone(); anchors += search_size // 2
TranslateToSearch(anc) ==
    LET o == cfg.search_size \div 2
    IN  [i \in DOMAIN anc |-> <<anc[i][1] + o, anc[i][2] + o, anc[i][3] + o, anc[i][4] + o>>]

\* neg_inds[:neg_upper_bound] when there are more
CapNeg(neg) == IF Len(neg) > NegUpperBound THEN SubSeq(neg, 1, NegUpperBound) ELSE neg

\* `if len(pos_inds) > 0:` and `if len(neg_inds) > 0:`
PosGuard(pos) == Cardinality(pos) > 0
NegGuard(neg) == Cardinality(neg) > 0

\* (faulty variant) the positives' label weights without the halving
MarkPositivesNoHalf(t, pos) ==
    IF PosGuard(pos)
    THEN [t EXCEPT !.labels = Assign(t.labels, pos, 1),
                   !.labels_weights = Assign(t.labels_weights, pos, Rat(1, Cardinality(pos))),
                   !.bbox_weights = Assign(t.bbox_weights, pos,
                        LET w == Rat(1, Cardinality(pos)) IN <<w, w, w, w>>)]
    ELSE t

\* (faulty variant) the box weight written to every anchor, not only the positives
MarkPositivesAllBoxes(t, pos) ==
    IF PosGuard(pos)
    THEN [t EXCEPT !.labels = Assign(t.labels, pos, 1),
                   !.labels_weights = Assign(t.labels_weights, pos, Rat(1, 2 * Cardinality(pos))),
                   !.bbox_weights = Assign(t.bbox_weights, DOMAIN t.bbox_weights,
                        LET w == Rat(1, Cardinality(pos)) IN <<w, w, w, w>>)]
    ELSE t

\* labels and weights of the positives (lines 304-307)
MarkPositives(t, pos) ==
    IF PosGuard(pos)
    THEN [t EXCEPT !.labels = Assign(t.labels, pos, 1),
                   !.labels_weights = Assign(t.labels_weights, pos, Rat(1, 2 * Cardinality(pos))),
                   !.bbox_weights = Assign(t.bbox_weights, pos,
                        LET w == Rat(1, Cardinality(pos)) IN <<w, w, w, w>>)]
    ELSE t

\* labels and weights of the negatives (lines 309-311)
MarkNegatives(t, neg) ==
    IF NegGuard(neg)
    THEN [t EXCEPT !.labels = Assign(t.labels, neg, 0),
                   !.labels_weights = Assign(t.labels_weights, neg, Rat(1, 2 * Cardinality(neg)))]
    ELSE t

PositivePair(gt, size, anc, smp) ==
    LET t0 == InitTargets(size)
        n == Numel(t0.labels)
        priors == TranslateToSearch(anc)
        pos == smp.pos
        neg == Range(CapNeg(smp.neg))
    IN  IF (PosGuard(pos) /\ Cardinality(pos) = 0) \/ (NegGuard(neg) /\ Cardinality(neg) = 0)
        THEN Raised("pos", "ZeroDivisionError", anc)    \* 1.0 / len(...)
        ELSE IF \E i \in pos \cup neg : i >= n
        THEN Raised("pos", "IndexError", anc)    \* index out of range
        ELSE LET t1 == MarkPositives(t0, pos)
                 t2 == MarkNegatives(t1, neg)
                 bt == [i \in DOMAIN t2.bbox_targets |->
                          IF i \in pos THEN Encode(priors[i], gt) ELSE t2.bbox_targets[i]]
             IN  [kind |-> "pos", ok |-> TRUE, why |-> "", labels |-> t2.labels,
                  labels_weights |-> t2.labels_weights, bbox_targets |-> bt,
                  bbox_weights |-> t2.bbox_weights, pos_inds |-> pos,
                  neg_inds |-> neg, cells |-> {}, pool |-> {}, center |-> <<0, 0>>,
                  used |-> anc]

\* every result _get_positive_pair_targets can return for this sample
PositiveOutcomes(gt, size, cache) ==
    LET anc == AnchorsAfter(cache, size).val
    IN  {PositivePair(gt, size, anc, smp) : smp \in SamplerOutcomes(Numel(anc))}

----------------------------------------------------------------------------
(* _get_negative_pair_targets *)

\* the indices a Python slice [start:stop] selects in a dimension of length n
SliceNorm(k, n) == IF k < 0 THEN Max(k + n, 0) ELSE Min(k, n)
Slice(start, stop, n) ==
    {i \in 0..(n - 1) : SliceNorm(start, n) <= i /\ i < SliceNorm(stop, n)}

\* mid + int(ceil((target_c - search_size // 2) / stride + 0.5))
GridCenter(mid, target_c, stride) ==
    LET v == RAdd(RDiv(RSub(target_c, RInt(cfg.search_size \div 2)), RInt(stride)), <<1, 2>>)
    IN  mid + CeilDiv(v[1], v[2])

\* (faulty variant) the 7 x 7 neighbourhood taken without the clamps
CandidateCellsUnclamped(cx, cy, size) == ((cy - 3)..(cy + 3)) \X ((cx - 3)..(cx + 3))

\* the cells of labels[top:down, left:right, :]
CandidateCells(cx, cy, size) ==
    LET H == size[1]
        W == size[2]
        left == Max(0, cx - 3)
        right == Min(W, cx + 4)
        top == Max(0, cy - 3)
        down == Min(H, cy + 4)
    IN  Slice(top, down, H) \X Slice(left, right, W)

\* torch.nonzero(labels == 0) after labels[...] = -1 and the slice's = 0
CandidatePool(cx, cy, size) ==
    LET n == size[1] * size[2] * cfg.A
        cells == CandidateCells(cx, cy, size)
        l1 == [i \in 0..(n - 1) |-> -1]
        marked == {FlatIndex(c[1], c[2], a, size[2], cfg.A) : c \in cells, a \in 0..(cfg.A - 1)}
        l2 == Assign(l1, marked, 0)
    IN  {i \in DOMAIN l2 : l2[i] = 0}

\* neg_inds[randperm(numel)[:num_neg]]: any num_neg of the pool, all of it
\* when it is smaller
RECURSIVE KSubsets(_, _)
KSubsets(S, k) ==
    IF k = 0 THEN {{}}
    ELSE IF Cardinality(S) < k THEN {}
    ELSE LET x == CHOOSE y \in S : TRUE
         IN  KSubsets(S \ {x}, k) \cup {T \cup {x} : T \in KSubsets(S \ {x}, k - 1)}

\* (faulty variant) the whole pool kept, the [:num_neg] cut dropped
RandpermWholePool(pool) == {pool}

RandpermChoices(pool) == KSubsets(pool, Min(cfg.num_neg, Cardinality(pool)))

\* `if len(neg_inds) > 0:` of the negative-pair procedure (line 371)
SampledGuard(chosen) == Cardinality(chosen) > 0

\* (faulty variant) the labels left as the sampling step set them
FinalLabelsKept(labels) == labels

\* labels[...] = 0, the last statement before the return (line 376)
FinalLabels(labels) == [i \in DOMAIN labels |-> 0]

NegativePair(gt, size, chosen) ==
    LET t0 == InitTargets(size)
        g == XyxyToCxcywh(RBox(gt))
        cx == GridCenter(size[2] \div 2, g[1], cfg.stride[1])
        cy == GridCenter(size[1] \div 2, g[2], cfg.stride[2])
        l3 == [i \in DOMAIN t0.labels |-> -1]
        t4 == IF SampledGuard(chosen)
              THEN [t0 EXCEPT !.labels = Assign(l3, chosen, 0),
                              !.labels_weights = Assign(t0.labels_weights, chosen,
                                                        Rat(1, 2 * Cardinality(chosen)))]
              ELSE [t0 EXCEPT !.labels = l3]
    IN  IF SampledGuard(chosen) /\ Cardinality(chosen) = 0
        THEN Raised("neg", "ZeroDivisionError", <<>>)    \* 1.0 / len(neg_inds)
        ELSE
        [kind |-> "neg", ok |-> TRUE, why |-> "", labels |-> FinalLabels(t4.labels),
         labels_weights |-> t4.labels_weights, bbox_targets |-> t4.bbox_targets,
         bbox_weights |-> t4.bbox_weights, pos_inds |-> {}, neg_inds |-> chosen,
         cells |-> CandidateCells(cx, cy, size), pool |-> CandidatePool(cx, cy, size),
         center |-> <<cx, cy>>, used |-> <<>>]

NegativeOutcomes(gt, size) ==
    LET g == XyxyToCxcywh(RBox(gt))
        cx == GridCenter(size[2] \div 2, g[1], cfg.stride[1])
        cy == GridCenter(size[1] \div 2, g[2], cfg.stride[2])
    IN  {NegativePair(gt, size, chosen) : chosen \in RandpermChoices(CandidatePool(cx, cy, size))}

----------------------------------------------------------------------------
(* get_targets *)

SampleOutcomes(sample, size, cache) ==
    IF sample.label = 1
    THEN PositiveOutcomes(sample.gt, size, cache)
    ELSE NegativeOutcomes(sample.gt, size)

\* the per-sample results of the loop over the batch, in batch order; the
\* loop ends at the first sample that raises
RECURSIVE BatchOutcomes(_, _, _)
BatchOutcomes(batch, size, cache) ==
    IF batch = <<>> THEN {<<>>}
    ELSE LET s == Head(batch)
             next == IF s.label = 1 THEN AnchorsAfter(cache, size) ELSE cache
         IN  UNION {IF o.ok
                    THEN {<<o>> \o rest : rest \in BatchOutcomes(Tail(batch), size, next)}
                    ELSE {<<o>>} : o \in SampleOutcomes(s, size, cache)}

\* (faulty variant) the weights stacked without the division
ScaleWeightsNot(w, N) == w

\* torch.stack(...) / len(...): every weight divided by the batch size
ScaleWeights(w, N) == RDiv(w, RInt(N))
ScaleLabel(l, N) == l

StackTargets(results) ==
    LET N == Len(results)
    IN  [all_labels |-> [n \in 1..N |-> [i \in DOMAIN results[n].labels |->
                            ScaleLabel(results[n].labels[i], N)]],
         all_labels_weights |-> [n \in 1..N |-> [i \in DOMAIN results[n].labels_weights |->
                            ScaleWeights(results[n].labels_weights[i], N)]],
         all_bbox_targets |-> [n \in 1..N |-> results[n].bbox_targets],
         all_bbox_weights |-> [n \in 1..N |-> [i \in DOMAIN results[n].bbox_weights |->
                            [k \in 1..4 |-> ScaleWeights(results[n].bbox_weights[i][k], N)]]]]

\* the cache after the loop: the first positive sample reached populates it
\* (faulty variant) the translation to the search image done on the cached
\* tensor itself, without the clone
RECURSIVE CacheAfterBatchInPlace(_, _, _)
CacheAfterBatchInPlace(batch, size, cache) ==
    IF batch = <<>> THEN cache
    ELSE CacheAfterBatchInPlace(Tail(batch), size,
                                IF Head(batch).label = 1
                                THEN Attr(TranslateToSearch(AnchorsAfter(cache, size).val))
                                ELSE cache)

RECURSIVE CacheAfterBatch(_, _, _)
CacheAfterBatch(batch, size, cache) ==
    IF batch = <<>> THEN cache
    ELSE CacheAfterBatch(Tail(batch), size,
                         IF Head(batch).label = 1 THEN AnchorsAfter(cache, size) ELSE cache)

GetTargetsOn(batches, sizes) ==
    /\ out.op = "none"
    /\ \E batch \in batches, size \in sizes :
      \E results \in BatchOutcomes(batch, size, anchors) :
        LET ok == Len(results) = Len(batch) /\ results[Len(results)].ok
        IN  /\ anchors' = CacheAfterBatch(SubSeq(batch, 1, Len(results)), size, anchors)
            /\ out' = [op |-> "get_targets", ok |-> ok, size |-> size, batch |-> batch,
                       samples |-> results,
                       targets |-> IF ok THEN StackTargets(results) ELSE <<>>]
            /\ UNCHANGED <<cfg, windows>>

----------------------------------------------------------------------------
(* Tensors in memory: view, permute(...).contiguous()                      *)

RECURSIVE ProdSeq(_)
ProdSeq(s) == IF s = <<>> THEN 1 ELSE Head(s) * ProdSeq(Tail(s))

\* the row-major stride of dimension d (1-based) of a contiguous tensor
StrideOf(shape, d) == ProdSeq(SubSeq(shape, d + 1, Len(shape)))

\* the multi-index (0-based entries) of storage offset lin
Unravel(lin, shape) == [d \in 1..Len(shape) |-> (lin \div StrideOf(shape, d)) % shape[d]]

RECURSIVE RavelFrom(_, _, _)
RavelFrom(idx, shape, d) ==
    IF d > Len(shape) THEN 0
    ELSE idx[d] * StrideOf(shape, d) + RavelFrom(idx, shape, d + 1)
Ravel(idx, shape) == RavelFrom(idx, shape, 1)

\* a tensor held as its values: what an operation of torch returns is
\* computed once, when it runs, and read from storage afterwards (the
\* comparison makes the evaluator enumerate the function; the value is t)
Stored(t) == IF t = t THEN t ELSE t

\* t.view(shape).permute(perm).contiguous() as storage; perm names the
\* source dimensions 0-based, as torch does
PermuteContiguous(data, shape, perm) ==
    LET ns == [j \in 1..Len(shape) |-> shape[perm[j] + 1]]
    IN  Stored([lin \in DOMAIN data |->
            LET m == Unravel(lin, ns)
                o == [d \in 1..Len(shape) |->
                        m[CHOOSE j \in 1..Len(shape) : perm[j] + 1 = d]]
            IN  data[Ravel(o, shape)]])

\* storage.view(-1, K): row i is <<storage[i*K], ..., storage[i*K + K-1]>>
Rows(data, K) ==
    [i \in 0..((Numel(data) \div K) - 1) |-> [k \in 1..K |-> data[i * K + k - 1]]]

----------------------------------------------------------------------------
(* Fixed-point numbers for what the code computes with exp, sqrt and cos   *)

FP == 10000

\* floor(sqrt(x)) for x >= 0
RECURSIVE ISqrtIn(_, _, _)
ISqrtIn(x, lo, hi) ==
    IF lo >= hi THEN lo
    ELSE LET mid == (lo + hi + 1) \div 2
         IN  IF mid * mid <= x THEN ISqrtIn(x, mid, hi) ELSE ISqrtIn(x, lo, mid - 1)
ISqrt(x) == ISqrtIn(x, 0, 46340)

\* exp(-f / FP) * FP for 0 <= f < FP: the Taylor series, term by term
RECURSIVE ExpSeries(_, _, _)
ExpSeries(f, term, k) ==
    IF term = 0 \/ k > 12 THEN 0
    ELSE term + ExpSeries(f, -((term * f) \div (k * FP)), k + 1)

\* exp(x / FP) * FP for x <= 0; 0 below the resolution
RECURSIVE ExpFP(_)
ExpFP(x) ==
    IF x < -(12 * FP) THEN 0
    ELSE IF x <= -FP THEN (ExpFP(x + FP) * 3679) \div FP
    ELSE Max(0, ExpSeries(-x, FP, 1))

\* a rational as a fixed-point number (floor)
ToFP(r) == (r[1] \div r[2]) * FP + ((r[1] % r[2]) * FP) \div r[2]

\* cls_score.softmax(dim=1)[:, 1] of one row <<l0, l1>> of logits
Softmax1(row) ==
    LET m == Max(row[1], row[2])
        e0 == ExpFP(row[1] - m)
        e1 == ExpFP(row[2] - m)
    IN  (e1 * FP) \div (e0 + e1)

\* np.hanning(M), for the lengths the model uses
Hanning(M) ==
    CASE M = 1 -> <<10000>>
      [] M = 2 -> <<0, 0>>
      [] M = 3 -> <<0, 10000, 0>>
      [] M = 4 -> <<0, 7500, 7500, 0>>
      [] M = 5 -> <<0, 5000, 10000, 5000, 0>>
      [] M = 25 -> <<0, 170, 670, 1464, 2500, 3706, 5000, 6294, 7500, 8536, 9330,
                    9830, 10000, 9830, 9330, 8536, 7500, 6294, 5000, 3706, 2500,
                    1464, 670, 170, 0>>

\* gen_2d_hanning_windows([size])[0]: outer(hanning(H), hanning(W)),
\* flattened, each value repeated for the base anchors of its cell
HanningWindows(size) ==
    LET H == size[1]
        W == size[2]
        A == cfg.A
    IN  [i \in 0..(H * W * A - 1) |->
            LET w == (i \div A) % W
                h == i \div (A * W)
            IN  (Hanning(H)[h + 1] * Hanning(W)[w + 1]) \div FP]

\* `if not hasattr(self, 'windows'): self.windows = ...`
WindowsAfter(cache, size) == IF cache.has THEN cache ELSE Attr(HanningWindows(size))

----------------------------------------------------------------------------
(* get_bbox *)

\* change_ratio(r) = max(r, 1 / r), r > 0 in fixed point
ChangeRatio(r) == Max(r, (FP * FP) \div r)

\* enlarge_size(w, h) = sqrt((w + pad) * (h + pad)), pad = (w + h) / 2,
\* in hundredths (FP = 100 * 100)
EnlargeSize(w, h) ==
    LET pad == RMul(RAdd(w, h), <<1, 2>>)
        v == RMul(RAdd(w, pad), RAdd(h, pad))
    IN  ISqrt(ToFP(v))

\* penalty = exp(-(aspect_ratio_penalty * scale_penalty - 1) * penalty_k)
\* of one decoded box <<cx, cy, w, h>>
Penalty(box, prev_bbox, scale_factor) ==
    LET scale_penalty ==
            ChangeRatio((EnlargeSize(box[3], box[4]) * FP) \div
                        EnlargeSize(RMul(prev_bbox[3], scale_factor),
                                    RMul(prev_bbox[4], scale_factor)))
        aspect_ratio_penalty ==
            ChangeRatio(ToFP(RDiv(RDiv(prev_bbox[3], prev_bbox[4]), RDiv(box[3], box[4]))))
        x == (aspect_ratio_penalty * scale_penalty) \div FP - FP
    IN  ExpFP(-((x * cfg.penalty_k) \div FP))

\* torch.argmax: the first index holding the maximum
RECURSIVE ArgMaxIn(_, _, _)
ArgMaxIn(t, lo, hi) ==
    IF lo >= hi THEN lo
    ELSE LET mid == (lo + hi) \div 2
             l == ArgMaxIn(t, lo, mid)
             r == ArgMaxIn(t, mid + 1, hi)
         IN  IF t[r] > t[l] THEN r ELSE l
ArgMax(t) == ArgMaxIn(t, 0, Numel(t) - 1)

\* the dimension order of cls_score / bbox_pred .permute(...) in get_bbox
BboxPermute == <<2, 3, 1, 0>>

\* (faulty variant) the penalised score reported as the confidence
BestScorePenalised(cls, score, best_idx) == score[best_idx]

\* best_score = cls_score[best_idx]
BestScore(cls, score, best_idx) == cls[best_idx]

\* (faulty variant) the best box's size taken over without smoothing
FinalBboxReplaced(best_box, lr, prev_bbox, scale_factor) ==
    LET best_bbox == [k \in 1..4 |-> RDiv(best_box[k], scale_factor)]
    IN  <<RAdd(best_bbox[1], prev_bbox[1]), RAdd(best_bbox[2], prev_bbox[2]),
          best_bbox[3], best_bbox[4]>>

\* final_bbox from the best decoded box (lines 538-549)
FinalBbox(best_box, lr, prev_bbox, scale_factor) ==
    LET best_bbox == [k \in 1..4 |-> RDiv(best_box[k], scale_factor)]
    IN  <<RAdd(best_bbox[1], prev_bbox[1]),
          RAdd(best_bbox[2], prev_bbox[2]),
          RAdd(RMul(prev_bbox[3], RSub(R1, lr)), RMul(best_bbox[3], lr)),
          RAdd(RMul(prev_bbox[4], RSub(R1, lr)), RMul(best_bbox[4], lr))>>

RaisedBbox(in, size, why, anc, win) ==
    [op |-> "get_bbox", ok |-> FALSE, why |-> why, size |-> size, in |-> in, cls |-> <<>>,
     boxes |-> <<>>, penalty |-> <<>>, score |-> <<>>, best_idx |-> 0,
     best_score |-> 0, final_bbox |-> <<>>, used |-> anc, usedw |-> win]

\* get_bbox on inputs in = [cls_score, bbox_pred, prev_bbox, scale_factor],
\* with the anchors and windows it reads from the cache
GetBboxResult(in, size, anc, win) ==
    LET H == size[1]
        W == size[2]
        A == cfg.A
        n == H * W * A
        cls_rows == Rows(PermuteContiguous(in.cls_score, <<2, A, H, W>>, BboxPermute), 2)
        cls == Stored([i \in 0..(n - 1) |-> Softmax1(cls_rows[i])])
        pred_rows == Rows(PermuteContiguous(in.bbox_pred, <<4, A, H, W>>, BboxPermute), 4)
    IN  IF Numel(anc) # n
        THEN RaisedBbox(in, size, "AssertionError", anc, win)    \* decode: sizes differ
        ELSE
        LET boxes == Stored([i \in 0..(n - 1) |-> XyxyToCxcywh(Decode(anc[i], pred_rows[i]))])
            penalty == Stored([i \in 0..(n - 1) |->
                                  Penalty(boxes[i], in.prev_bbox, in.scale_factor)])
            m == Numel(win)
        IN  IF m # n /\ m # 1 /\ n # 1
            THEN RaisedBbox(in, size, "RuntimeError", anc, win)    \* no broadcast
            ELSE
            LET score == Stored([i \in 0..(Max(m, n) - 1) |->
                            (((penalty[IF n = 1 THEN 0 ELSE i] * cls[IF n = 1 THEN 0 ELSE i])
                                 \div FP) * (FP - cfg.window_influence)) \div FP
                            + (win[IF m = 1 THEN 0 ELSE i] * cfg.window_influence) \div FP])
                best_idx == ArgMax(score)
            IN  IF best_idx >= n
                THEN RaisedBbox(in, size, "IndexError", anc, win)
                ELSE
                LET lr == Rat((((penalty[best_idx] * cls[best_idx]) \div FP) * cfg.lr) \div FP, FP)
                IN  [op |-> "get_bbox", ok |-> TRUE, why |-> "", size |-> size, in |-> in, cls |-> cls,
                     boxes |-> boxes, penalty |-> penalty, score |-> score,
                     best_idx |-> best_idx,
                     best_score |-> BestScore(cls, score, best_idx),
                     final_bbox |-> FinalBbox(boxes[best_idx], lr, in.prev_bbox,
                                              in.scale_factor),
                     used |-> anc, usedw |-> win]

GetBboxOn(inputs, sizes) ==
    /\ out.op = "none"
    /\ \E size \in sizes :
      \E in \in inputs :
        /\ Numel(in.cls_score) = 2 * cfg.A * size[1] * size[2]
        /\ Numel(in.bbox_pred) = 4 * cfg.A * size[1] * size[2]
        /\ anchors' = AnchorsAfter(anchors, size)
        /\ windows' = WindowsAfter(windows, size)
        /\ out' = GetBboxResult(in, size, anchors'.val, windows'.val)
        /\ UNCHANGED cfg

----------------------------------------------------------------------------
(* loss: the rows handed to loss_cls and loss_bbox                        *)

\* (faulty variant) classes before base anchors in the permuted tensor
LossPermuteClassMajor == <<0, 3, 4, 1, 2>>

\* the dimension order of .permute(...) in loss
LossPermute == <<0, 3, 4, 2, 1>>

\* a stacked (N, n) tensor flattened by .view(-1) / .view(-1, 4)
FlattenBatch(t) ==
    LET per == Numel(t[1])
    IN  [i \in 0..(Len(t) * per - 1) |-> t[(i \div per) + 1][i % per]]

LossRows(cls_score, bbox_pred, targets, size) ==
    LET N == Len(targets.all_labels)
        H == size[1]
        W == size[2]
        A == cfg.A
    IN  [cls_score |-> Rows(PermuteContiguous(cls_score, <<N, 2, A, H, W>>, LossPermute), 2),
         labels |-> FlattenBatch(targets.all_labels),
         labels_weights |-> FlattenBatch(targets.all_labels_weights),
         bbox_pred |-> Rows(PermuteContiguous(bbox_pred, <<N, 4, A, H, W>>, LossPermute), 4),
         bbox_targets |-> FlattenBatch(targets.all_bbox_targets),
         bbox_weights |-> FlattenBatch(targets.all_bbox_weights)]

LossOn(bases) ==
    /\ out.op = "get_targets"
    /\ out.ok
    /\ \E b \in bases :
        LET N == Len(out.batch)
            n == out.size[1] * out.size[2] * cfg.A
            cls_score == [i \in 0..(N * 2 * n - 1) |-> b + i]
            bbox_pred == [i \in 0..(N * 4 * n - 1) |-> b + i]
        IN  out' = [op |-> "loss", ok |-> TRUE, size |-> out.size, N |-> N,
                    cls_score |-> cls_score, bbox_pred |-> bbox_pred,
                    samples |-> out.samples, targets |-> out.targets,
                    rows |-> LossRows(cls_score, bbox_pred, out.targets, out.size)]
    /\ UNCHANGED <<cfg, anchors, windows>>

----------------------------------------------------------------------------
(* Configurations and inputs *)

SearchSize == 255          \* train_cfg.search_size
PenaltyK == 500            \* test_cfg.penalty_k = 0.05
WindowInfluence == 4200    \* test_cfg.window_influence = 0.42
LR == 3800                 \* test_cfg.lr = 0.38

BaseAnchors == <<<<-4, -4, 4, 4>>, <<-6, -3, 6, 3>>, <<-3, -6, 3, 6>>>>

Config(A, base, num_neg) ==
    [A |-> A, base |-> SubSeq(base, 1, A), stride |-> <<8, 8>>,
     search_size |-> SearchSize, num_neg |-> num_neg, sampler_num |-> SamplerNum,
     pos_fraction |-> <<1, 2>>, penalty_k |-> PenaltyK,
     window_influence |-> WindowInfluence, lr |-> LR]

\* ground-truth boxes [tl_x, tl_y, br_x, br_y] in the search image
GtBoxes == {<<119, 119, 135, 135>>, <<131, 125, 151, 137>>}

Samples(gts, labels) == {[gt |-> g, label |-> l] : g \in gts, l \in labels}
BatchesOf(samples, lens) == UNION {[1..m -> samples] : m \in lens}

\* no call in progress: the caller holds no result of the head
NoCall == [op |-> "none", ok |-> TRUE]

\* the caller takes the result (or the exception) of the call
Return ==
    /\ out.op # "none"
    /\ out' = NoCall
    /\ UNCHANGED <<cfg, anchors, windows>>

\* --- the head's life: calls with differing score-map sizes ---------------

Sizes == {<<1, 3>>, <<3, 1>>, <<2, 2>>}

\* logits: background 0, foreground one of two values per anchor
\* deltas: per anchor either zero or a shift that also reshapes the box
ClsScores(n) ==
    {[i \in 0..(2 * n - 1) |-> IF i < n THEN 0 ELSE f[i - n]] : f \in [0..(n - 1) -> {0, 1000}]}
BboxPreds(n) ==
    {[i \in 0..(4 * n - 1) |->
        IF i < 2 * n THEN (IF g[i % n] THEN <<1, 8>> ELSE R0)
        ELSE IF i < 3 * n THEN (IF g[i % n] THEN <<2, 1>> ELSE R1)
        ELSE R1] : g \in [0..(n - 1) -> BOOLEAN]}
PrevBoxes == {<<RInt(100), RInt(100), RInt(8), RInt(8)>>, <<RInt(40), RInt(60), RInt(12), RInt(6)>>}

BboxInputs ==
    UNION {{[cls_score |-> c, bbox_pred |-> b, prev_bbox |-> p, scale_factor |-> R1] :
                c \in ClsScores(n), b \in BboxPreds(n), p \in PrevBoxes} : n \in {3, 4}}

Init ==
    /\ cfg \in {Config(1, BaseAnchors, k) : k \in 1..MaxNumNeg}
    /\ anchors = NoAttr
    /\ windows = NoAttr
    /\ out = NoCall

GetTargets == GetTargetsOn(BatchesOf(Samples(GtBoxes, {0, 1}), {1}), Sizes)
GetBbox == GetBboxOn(BboxInputs, Sizes)

Next == GetTargets \/ GetBbox \/ Return

Spec == Init /\ [][Next]_vars

\* --- the negative-pair region: wide grids, centres on and off the grid ---

NegSizes == {<<8, 9>>, <<9, 2>>, <<2, 8>>}

\* a box of width and height 16 whose centre is 127 + 8 * d (+ 9/2 when
\* half is set) in x and 127 + 8 * e in y
GtAround(d, e, half) ==
    IF half THEN <<123 + 8 * d, 119 + 8 * e, 140 + 8 * d, 135 + 8 * e>>
    ELSE <<119 + 8 * d, 119 + 8 * e, 135 + 8 * d, 135 + 8 * e>>

\* centres left of, above, right of, below and on the grid, on cell
\* boundaries and between them
NegGtBoxes ==
    {GtAround(-11, -1, FALSE), GtAround(-11, -1, TRUE), GtAround(-1, -1, FALSE),
     GtAround(-8, 3, FALSE), GtAround(7, -1, FALSE), GtAround(3, -11, TRUE),
     GtAround(-1, -11, FALSE), GtAround(3, 3, TRUE), GtAround(-8, 5, FALSE)}

\* the wide score map is taken with one base anchor per cell
NegSizesOf(A) == IF A = 1 THEN NegSizes ELSE NegSizes \ {<<8, 9>>}

InitNeg ==
    /\ cfg \in {Config(A, BaseAnchors, k) : A \in {1, 2}, k \in 1..MaxNumNeg}
    /\ anchors = NoAttr
    /\ windows = NoAttr
    /\ out = NoCall

GetTargetsNeg ==
    GetTargetsOn(BatchesOf(Samples(NegGtBoxes, {0}), {1}), NegSizesOf(cfg.A))

NextNeg == GetTargetsNeg \/ Return

SpecNeg == InitNeg /\ [][NextNeg]_vars

\* --- batches: one small score map, positive and negative samples ---------

BatchSizes == {<<1, 2>>}

GetTargetsBatch ==
    GetTargetsOn(BatchesOf(Samples(GtBoxes, {0, 1}), 1..MaxBatch), BatchSizes)

NextBatch == GetTargetsBatch \/ Return

SpecBatch == Init /\ [][NextBatch]_vars

\* --- layout: two base anchors, a 2 x 3 score map, tensors whose entries --
\* --- tell their storage offsets apart -------------------------------------

LayoutSizes == {<<2, 3>>}

\* ground-truth centres projecting right of the grid and below it, so that
\* the region is the last column, resp. the last cell of the last row
LayoutGtBoxes == {GtAround(3, -1, FALSE), GtAround(3, 2, FALSE)}

CodedLogits(n) == [i \in 0..(n - 1) |-> (i * i * 37) % 4001]
CodedDeltas(n) == [i \in 0..(n - 1) |-> Rat(16 + ((i * i * 5) % 13), 16)]

LayoutInputs ==
    {[cls_score |-> CodedLogits(24), bbox_pred |-> CodedDeltas(48), prev_bbox |-> p,
      scale_factor |-> R1] : p \in PrevBoxes}

InitLayout ==
    /\ cfg \in {Config(2, BaseAnchors, k) : k \in 1..MaxNumNeg}
    /\ anchors = NoAttr
    /\ windows = NoAttr
    /\ out = NoCall

GetTargetsLayout ==
    GetTargetsOn(BatchesOf(Samples(LayoutGtBoxes, {0}), 1..MaxBatch), LayoutSizes)
LossLayout == LossOn({0, 1000})
GetBboxLayout == GetBboxOn(LayoutInputs, LayoutSizes)

NextLayout == GetTargetsLayout \/ LossLayout \/ GetBboxLayout \/ Return

SpecLayout == InitLayout /\ [][NextLayout]_vars

\* --- the end-to-end decode scenario: a 25 x 25 score map, one base -------
\* --- anchor, one confident cell whose decoded box is (102, 101, 52, 49) ---

ScenarioSize == <<25, 25>>
ScenarioPrev == <<RInt(100), RInt(100), RInt(50), RInt(50)>>
ScenarioCells == {i \in 0..624 : i % 24 = 0}

ScenarioConfig ==
    [A |-> 1, base |-> <<<<-25, -25, 25, 25>>>>, stride |-> <<8, 8>>,
     search_size |-> SearchSize, num_neg |-> 1, sampler_num |-> SamplerNum,
     pos_fraction |-> <<1, 2>>, penalty_k |-> PenaltyK,
     window_influence |-> WindowInfluence, lr |-> LR]

\* the deltas that decode the anchor of `cell` to (102, 101, 52, 49); every
\* other cell keeps its anchor
ScenarioDeltas(cell) ==
    LET px == ((cell % 25) - 12) * 8
        py == ((cell \div 25) - 12) * 8
    IN  [i \in 0..(4 * 625 - 1) |->
            IF i % 625 # cell THEN (IF i < 2 * 625 THEN R0 ELSE R1)
            ELSE CASE i \div 625 = 0 -> Rat(102 - px, 50)
                   [] i \div 625 = 1 -> Rat(101 - py, 50)
                   [] i \div 625 = 2 -> Rat(52, 50)
                   [] i \div 625 = 3 -> Rat(49, 50)]

\* background logit 0 everywhere; foreground logit l at `cell`, -3 elsewhere
ScenarioLogits(cell, l) ==
    [i \in 0..(2 * 625 - 1) |->
        IF i < 625 THEN 0 ELSE IF i - 625 = cell THEN l ELSE -(3 * FP)]

ScenarioInputs ==
    {[cls_score |-> ScenarioLogits(c, l), bbox_pred |-> ScenarioDeltas(c),
      prev_bbox |-> ScenarioPrev, scale_factor |-> R1] :
        c \in ScenarioCells, l \in {2 * FP, 3 * FP, 4 * FP, 5 * FP}}

InitScenario ==
    /\ cfg = ScenarioConfig
    /\ anchors = NoAttr
    /\ windows = NoAttr
    /\ out = NoCall

GetBboxScenario == GetBboxOn(ScenarioInputs, {ScenarioSize})

NextScenario == GetBboxScenario \/ Return

SpecScenario == InitScenario /\ [][NextScenario]_vars

----------------------------------------------------------------------------
(* Properties *)

\* the results of the positive-pair procedure in the last get_targets call
PosResults ==
    IF out.op = "get_targets"
    THEN {out.samples[n] : n \in {m \in DOMAIN out.samples : out.samples[m].kind = "pos"}}
    ELSE {}

\* the results of the negative-pair procedure in the last get_targets call
NegResults ==
    IF out.op = "get_targets"
    THEN {out.samples[n] : n \in {m \in DOMAIN out.samples : out.samples[m].kind = "neg"}}
    ELSE {}

\* C1 (as claimed): every positive-pair get_targets call and every get_bbox
\* call that returns has used the anchors generated and re-centered for its
\* own score-map size; anchors cached for another size are never reused
\* silently.
C1_AnchorsOfOwnSize ==
    /\ (out.op = "get_bbox" /\ out.ok) => out.used = PopulateAnchors(out.size)
    /\ \A r \in PosResults : r.ok => r.used = PopulateAnchors(out.size)

\* C2: in every positive-pair result the label weights over the positives
\* sum to 1/2 (0 when there is none), those over the capped negatives sum to
\* 1/2 (0 when there is none), and no division by zero was raised.
C2_PositivePairWeightSums ==
    \A r \in PosResults :
        /\ r.why # "ZeroDivisionError"
        /\ r.ok =>
            /\ RSumOver(r.labels_weights, r.pos_inds) = (IF r.pos_inds = {} THEN R0 ELSE <<1, 2>>)
            /\ RSumOver(r.labels_weights, r.neg_inds) = (IF r.neg_inds = {} THEN R0 ELSE <<1, 2>>)

C2_Witness ==
    \E r \in PosResults :
        /\ r.ok
        /\ Cardinality(r.pos_inds) = 2
        /\ Cardinality(r.neg_inds) = 2
        /\ \E i \in r.pos_inds : r.labels_weights[i] = <<1, 4>>

\* C3 (as claimed): in every positive-pair result the positives have label
\* 1, the capped negatives label 0, and every other anchor has label -1 with
\* label weight 0 and box weight 0.
C3_OthersLabelledIgnore ==
    \A r \in PosResults : r.ok =>
        \A i \in DOMAIN r.labels :
            /\ i \in r.pos_inds => r.labels[i] = 1
            /\ i \in r.neg_inds => r.labels[i] = 0
            /\ i \notin r.pos_inds \cup r.neg_inds =>
                r.labels[i] = -1 /\ r.labels_weights[i] = R0 /\ r.bbox_weights[i] = Zero4

\* C3 (amended): in every positive-pair result the positives have label 1,
\* the capped negatives label 0, and every other anchor keeps the label 0 it
\* was initialised with, with label weight 0 and box weight 0.
C3_OthersLabelledZeroWeightless ==
    \A r \in PosResults : r.ok =>
        \A i \in DOMAIN r.labels :
            /\ i \in r.pos_inds => r.labels[i] = 1
            /\ i \in r.neg_inds => r.labels[i] = 0
            /\ i \notin r.pos_inds \cup r.neg_inds =>
                r.labels[i] = 0 /\ r.labels_weights[i] = R0 /\ r.bbox_weights[i] = Zero4

C3_Witness ==
    \E r \in PosResults :
        /\ r.ok
        /\ r.pos_inds # {}
        /\ r.neg_inds # {}
        /\ \E i \in DOMAIN r.labels : i \notin r.pos_inds \cup r.neg_inds /\ r.labels[i] = 0

\* the foreground probability of flat index i, from the logits get_bbox was
\* given: channels a and A + a at cell (h, w)
ForegroundProb(in, size, i) ==
    LET W == size[2]
        H == size[1]
        a == i % cfg.A
        w == (i \div cfg.A) % W
        h == i \div (cfg.A * W)
    IN  Softmax1(<<in.cls_score[(a * H + h) * W + w],
                   in.cls_score[((cfg.A + a) * H + h) * W + w]>>)

\* C9: get_bbox selects the first index, in flattened order, that maximises
\* the penalised and windowed score, and returns as score the unpenalised
\* foreground probability of that index.
C9_FirstArgmaxUnpenalisedScore ==
    (out.op = "get_bbox" /\ out.ok) =>
        /\ \A j \in DOMAIN out.score : out.score[j] <= out.score[out.best_idx]
        /\ \A j \in DOMAIN out.score : j < out.best_idx => out.score[j] < out.score[out.best_idx]
        /\ out.best_score = ForegroundProb(out.in, out.size, out.best_idx)

\* the penalty and the window moved the selection away from the most
\* confident index, among tied penalised scores the first was taken, and
\* the reported score is not the penalised one
C9_Witness ==
    /\ out.op = "get_bbox"
    /\ out.ok
    /\ \E j \in DOMAIN out.cls : out.cls[j] > out.cls[out.best_idx]
    /\ \E j \in DOMAIN out.score : j > out.best_idx /\ out.score[j] = out.score[out.best_idx]
    /\ out.best_score # out.score[out.best_idx]

\* the cells of the 7 x 7 neighbourhood of a grid centre that lie on the grid
Neighbourhood(center, size) ==
    {c \in (0..(size[1] - 1)) \X (0..(size[2] - 1)) :
        /\ center[2] - 3 <= c[1] /\ c[1] <= center[2] + 3
        /\ center[1] - 3 <= c[2] /\ c[2] <= center[1] + 3}

\* the cells of a set of flat anchor indices
CellsOf(inds, size) == {<<i \div (cfg.A * size[2]), (i \div cfg.A) % size[2]>> : i \in inds}

\* C4 (as claimed): in every negative-pair result the cells marked as
\* negative candidates are exactly the 7 x 7 neighbourhood of the projected
\* grid centre intersected with the grid: never more than 49 cells, and
\* none when the neighbourhood lies off the grid.
C4_PoolIsClampedNeighbourhood ==
    \A r \in NegResults :
        /\ CellsOf(r.pool, out.size) = Neighbourhood(r.center, out.size)
        /\ Cardinality(CellsOf(r.pool, out.size)) <= 49

C6_NegativePairAllZero ==
    \A r \in NegResults : r.ok =>
        \A i \in DOMAIN r.labels :
            r.labels[i] = 0 /\ r.bbox_targets[i] = ZeroDelta /\ r.bbox_weights[i] = Zero4

\* some anchors were candidates and not sampled, some were no candidates
C6_Witness ==
    \E r \in NegResults :
        /\ r.ok
        /\ r.neg_inds # {}
        /\ r.pool \ r.neg_inds # {}
        /\ DOMAIN r.labels \ r.pool # {}

\* the sum of all label weights of sample n of the stacked targets
SampleWeightSum(n) ==
    RSumOver(out.targets.all_labels_weights[n], DOMAIN out.targets.all_labels_weights[n])

RECURSIVE BatchWeightSum(_)
BatchWeightSum(n) == IF n = 0 THEN R0 ELSE RAdd(SampleWeightSum(n), BatchWeightSum(n - 1))

\* C7: get_targets sends each sample to the procedure its pair-label names,
\* keeps the batch order, divides the label weights and the box weights by
\* the batch size and leaves labels and box targets unscaled; the label
\* weights of a sample sum to at most 1/N, those of the batch to at most 1.
C7_DispatchOrderAndScaling ==
    (out.op = "get_targets" /\ out.ok) =>
        LET N == Len(out.batch)
            t == out.targets
        IN  /\ Len(out.samples) = N
            /\ Len(t.all_labels) = N
            /\ \A n \in 1..N :
                LET r == out.samples[n]
                IN  /\ r.kind = (IF out.batch[n].label = 1 THEN "pos" ELSE "neg")
                    /\ t.all_labels[n] = r.labels
                    /\ t.all_bbox_targets[n] = r.bbox_targets
                    /\ \A i \in r.pos_inds :
                        t.all_bbox_targets[n][i] =
                            Encode(TranslateToSearch(r.used)[i], out.batch[n].gt)
                    /\ \A i \in DOMAIN r.labels :
                        /\ t.all_labels_weights[n][i] = RDiv(r.labels_weights[i], RInt(N))
                        /\ \A k \in 1..4 :
                            t.all_bbox_weights[n][i][k] = RDiv(r.bbox_weights[i][k], RInt(N))
                    /\ RLe(SampleWeightSum(n), Rat(1, N))
            /\ RLe(BatchWeightSum(N), R1)

\* a batch of two with a positive pair after a negative pair, the positive
\* pair with positives and negatives
C7_Witness ==
    /\ out.op = "get_targets"
    /\ out.ok
    /\ Len(out.batch) = 2
    /\ out.batch[1].label = 0
    /\ out.batch[2].label = 1
    /\ out.batch[1].gt # out.batch[2].gt
    /\ out.samples[2].pos_inds # {}
    /\ out.samples[2].neg_inds # {}
    /\ SampleWeightSum(2) = <<1, 2>>

\* the results of the target procedures that the last get_targets call, or
\* the loss call that followed it, worked on
TargetResults ==
    IF out.op \in {"get_targets", "loss"}
    THEN {out.samples[n] : n \in DOMAIN out.samples}
    ELSE {}

\* the re-centered anchor of base anchor a at cell (h, w)
AnchorAt(h, w, a, size) ==
    LET b == cfg.base[a + 1]
        dx == (w - (size[2] \div 2)) * cfg.stride[1]
        dy == (h - (size[1] \div 2)) * cfg.stride[2]
    IN  <<b[1] + dx, b[2] + dy, b[3] + dx, b[4] + dy>>

\* C8: the flattening orders agree.  The negative-pair procedure writes
\* base anchor a of cell (h, w) at flat index (h*W + w)*A + a; loss() pairs
\* the target at that index of sample n with the predictions of channels
\* k*A + a at (h, w) of sample n; get_bbox() takes the scores, the deltas
\* and the anchor of that index from the same (h, w, a).
C8_FlatteningOrdersAgree ==
    LET H == out.size[1]
        W == out.size[2]
        A == cfg.A
    IN  /\ \A r \in TargetResults : r.kind = "neg" =>
            /\ r.pool = {(c[1] * W + c[2]) * A + a : c \in r.cells, a \in 0..(A - 1)}
            /\ \A i \in DOMAIN r.labels : (r.labels_weights[i] # R0) = (i \in r.neg_inds)
        /\ out.op = "loss" =>
            \A n \in 0..(out.N - 1), h \in 0..(H - 1), w \in 0..(W - 1), a \in 0..(A - 1) :
                LET row == ((n * H + h) * W + w) * A + a
                    i == (h * W + w) * A + a
                    t == out.targets
                IN  /\ out.rows.cls_score[row] =
                            [k \in 1..2 |->
                                out.cls_score[((n * 2 * A + (k - 1) * A + a) * H + h) * W + w]]
                    /\ out.rows.bbox_pred[row] =
                            [k \in 1..4 |->
                                out.bbox_pred[((n * 4 * A + (k - 1) * A + a) * H + h) * W + w]]
                    /\ out.rows.labels[row] = t.all_labels[n + 1][i]
                    /\ out.rows.labels_weights[row] = t.all_labels_weights[n + 1][i]
                    /\ out.rows.bbox_targets[row] = t.all_bbox_targets[n + 1][i]
                    /\ out.rows.bbox_weights[row] = t.all_bbox_weights[n + 1][i]
        /\ (out.op = "get_bbox" /\ out.ok) =>
            \A h \in 0..(H - 1), w \in 0..(W - 1), a \in 0..(A - 1) :
                LET i == (h * W + w) * A + a
                    delta == [k \in 1..4 |-> out.in.bbox_pred[(((k - 1) * A + a) * H + h) * W + w]]
                IN  /\ out.cls[i] =
                            Softmax1(<<out.in.cls_score[(a * H + h) * W + w],
                                       out.in.cls_score[((A + a) * H + h) * W + w]>>)
                    /\ out.used[i] = AnchorAt(h, w, a, out.size)
                    /\ out.boxes[i] = XyxyToCxcywh(Decode(AnchorAt(h, w, a, out.size), delta))

\* loss() on a batch of two whose second sample marked only part of the
\* grid and gave a weight to an anchor that is not its cell's first
C8_Witness ==
    /\ out.op = "loss"
    /\ out.N = 2
    /\ out.samples[2].cells # {}
    /\ out.samples[2].cells # (0..(out.size[1] - 1)) \X (0..(out.size[2] - 1))
    /\ \E row \in DOMAIN out.rows.labels_weights :
        /\ row >= out.size[1] * out.size[2] * cfg.A
        /\ row % cfg.A = 1
        /\ out.rows.labels_weights[row] # R0

\* the cell of the scenario: the one with a positive foreground logit
ScenarioCell == CHOOSE c \in 0..624 : out.in.cls_score[625 + c] > 0

\* C10 (as claimed): in the scenario get_bbox returns a box whose centre is
\* exactly (102, 101) and whose width and height lie strictly between the
\* previous and the predicted values.
C10_ScenarioCentre102 ==
    (out.op = "get_bbox" /\ out.ok) =>
        /\ out.final_bbox[1] = RInt(102)
        /\ out.final_bbox[2] = RInt(101)
        /\ RLt(RInt(50), out.final_bbox[3]) /\ RLt(out.final_bbox[3], RInt(52))
        /\ RLt(RInt(49), out.final_bbox[4]) /\ RLt(out.final_bbox[4], RInt(50))

\* C10 (amended): in the scenario, the decoded box (102, 101, 52, 49) being
\* relative to the search region's centre, get_bbox selects that cell and
\* returns a box whose centre is the decoded centre plus the previous
\* centre, exactly (202, 201), and whose width and height lie strictly
\* between the previous and the predicted values.
C10_ScenarioCentreTranslated ==
    (out.op = "get_bbox" /\ out.ok) =>
        /\ out.best_idx = ScenarioCell
        /\ out.boxes[out.best_idx] = <<RInt(102), RInt(101), RInt(52), RInt(49)>>
        /\ out.final_bbox[1] = RInt(202)
        /\ out.final_bbox[2] = RInt(201)
        /\ RLt(RInt(50), out.final_bbox[3]) /\ RLt(out.final_bbox[3], RInt(52))
        /\ RLt(RInt(49), out.final_bbox[4]) /\ RLt(out.final_bbox[4], RInt(50))

\* the scenario's cell is a corner of the score map, where the window is 0
C10_Witness ==
    /\ out.op = "get_bbox"
    /\ out.ok
    /\ out.best_idx = 624
    /\ out.usedw[624] = 0
    /\ out.boxes[624] = <<RInt(102), RInt(101), RInt(52), RInt(49)>>

----------------------------------------------------------------------------
(* Concurrent calls on one head whose cache is empty: the statements of    *)
(* lines 276-286 and 486-507, one step each.  Here `out` holds the calls   *)
(* in flight: for each its kind, its position, its size and the anchors    *)
(* it read, and (gen) how the tensor self.anchors names was made.          *)

MaxCalls == 2

RaceSizes == {<<1, 3>>, <<3, 1>>}

\* self.anchors[:, 0:4:2] -= (feat_w // 2) * stride_w
RecenterX(anc, size) ==
    LET ox == (size[2] \div 2) * cfg.stride[1]
    IN  [i \in DOMAIN anc |-> <<anc[i][1] - ox, anc[i][2], anc[i][3] - ox, anc[i][4]>>]

\* self.anchors[:, 1:4:2] -= (feat_h // 2) * stride_h
RecenterY(anc, size) ==
    LET oy == (size[1] \div 2) * cfg.stride[2]
    IN  [i \in DOMAIN anc |-> <<anc[i][1], anc[i][2] - oy, anc[i][3], anc[i][4] - oy>>]

NoGen == [size |-> <<0, 0>>, rx |-> 0, ry |-> 0]

IdleCall == [kind |-> "none", pc |-> "idle", size |-> <<0, 0>>, used |-> <<>>, seen |-> NoGen]

InitRace ==
    /\ cfg = Config(1, BaseAnchors, 1)
    /\ anchors = NoAttr
    /\ windows = NoAttr
    /\ out = [op |-> "calls", ok |-> TRUE, calls |-> [t \in 1..MaxCalls |-> IdleCall],
              gen |-> NoGen]

\* call t moves to position pc
Goto(t, pc) == [out EXCEPT !.calls[t].pc = pc]

\* a caller enters get_bbox or _get_positive_pair_targets
Enter(t) ==
    /\ out.calls[t].pc = "idle"
    /\ \E kind \in {"get_bbox", "pos"}, size \in RaceSizes :
        out' = [out EXCEPT !.calls[t] = [IdleCall EXCEPT !.kind = kind, !.pc = "check",
                                                         !.size = size]]
    /\ UNCHANGED <<cfg, anchors, windows>>

\* if not hasattr(self, 'anchors'):
CheckAnchors(t) ==
    /\ out.calls[t].pc = "check"
    /\ out' = Goto(t, IF anchors.has THEN (IF out.calls[t].kind = "get_bbox"
                                           THEN "windows" ELSE "read")
                      ELSE "populate")
    /\ UNCHANGED <<cfg, anchors, windows>>

\* self.anchors = self.anchor_generator.grid_priors(...)[0]
Publish(t) ==
    /\ out.calls[t].pc = "populate"
    /\ anchors' = Attr(GridPriors(out.calls[t].size))
    /\ out' = [Goto(t, "recenter_x") EXCEPT
                 !.gen = [size |-> out.calls[t].size, rx |-> 0, ry |-> 0]]
    /\ UNCHANGED <<cfg, windows>>

\* the in-place subtraction on the tensor self.anchors names now: x
SubtractX(t) ==
    /\ out.calls[t].pc = "recenter_x"
    /\ anchors' = Attr(RecenterX(anchors.val, out.calls[t].size))
    /\ out' = [Goto(t, "recenter_y") EXCEPT !.gen.rx = @ + 1]
    /\ UNCHANGED <<cfg, windows>>

\* the in-place subtraction on the tensor self.anchors names now: y
SubtractY(t) ==
    /\ out.calls[t].pc = "recenter_y"
    /\ anchors' = Attr(RecenterY(anchors.val, out.calls[t].size))
    /\ out' = [Goto(t, IF out.calls[t].kind = "get_bbox" THEN "windows" ELSE "read")
                 EXCEPT !.gen.ry = @ + 1]
    /\ UNCHANGED <<cfg, windows>>

\* get_bbox only: if not hasattr(self, 'windows'): self.windows = ...
CheckWindows(t) ==
    /\ out.calls[t].pc = "windows"
    /\ windows' = WindowsAfter(windows, out.calls[t].size)
    /\ out' = Goto(t, "read")
    /\ UNCHANGED <<cfg, anchors>>

\* anchors = self.anchors.clone() (line 286), resp. the decode of line 507
ReadAnchors(t) ==
    /\ out.calls[t].pc = "read"
    /\ out' = [out EXCEPT !.calls[t].pc = "done", !.calls[t].used = anchors.val,
                          !.calls[t].seen = out.gen]
    /\ UNCHANGED <<cfg, anchors, windows>>

NextRace ==
    \E t \in 1..MaxCalls :
        \/ Enter(t)
        \/ CheckAnchors(t)
        \/ Publish(t)
        \/ SubtractX(t)
        \/ SubtractY(t)
        \/ CheckWindows(t)
        \/ ReadAnchors(t)

SpecRace == InitRace /\ [][NextRace]_vars

\* C11 (as claimed): whatever the interleaving of the calls, every call
\* reads anchors that were re-centered exactly once, in x and in y, by the
\* offsets of the size they were generated for, and no cached anchor set is
\* re-centered twice.  (That the size is the reading call's own is C1's
\* part and left out here.)
C11_FirstPopulationRaceFree ==
    /\ out.gen.rx <= 1 /\ out.gen.ry <= 1
    /\ \A t \in 1..MaxCalls : out.calls[t].pc = "done" =>
        /\ out.calls[t].seen.rx = 1
        /\ out.calls[t].seen.ry = 1
        /\ out.calls[t].used = PopulateAnchors(out.calls[t].seen.size)

\* the anchors of a result that carry a label weight
Weighted(r) == {i \in DOMAIN r.labels_weights : r.labels_weights[i] # R0}

RecenteredOnce(size) ==
    LET g == GridPriors(size)
        ox == (size[2] \div 2) * cfg.stride[1]
        oy == (size[1] \div 2) * cfg.stride[2]
    IN  [i \in DOMAIN g |-> <<g[i][1] - ox, g[i][2] - oy, g[i][3] - ox, g[i][4] - oy>>]

\* C13: no call changes a populated cache (anchors or window); the call
\* that populates the anchors, get_targets or get_bbox, leaves the
\* generator's anchors for its size re-centered exactly once, and the
\* window of its size; and every positive-pair result is encoded against
\* the cached anchors translated once by search_size div 2, the cache
\* itself staying untranslated.
C13_PopulatedCacheNeverChanges ==
    [][/\ anchors.has => anchors' = anchors
       /\ windows.has => windows' = windows
       /\ (~anchors.has /\ anchors'.has) => anchors'.val = RecenteredOnce(out'.size)
       /\ (~windows.has /\ windows'.has) => windows'.val = HanningWindows(out'.size)
       /\ out'.op = "get_targets" =>
            \A n \in DOMAIN out'.samples :
                LET r == out'.samples[n]
                    o == cfg.search_size \div 2
                IN  (r.kind = "pos" /\ r.ok) =>
                        /\ r.used = anchors'.val
                        /\ \A i \in r.pos_inds :
                            r.bbox_targets[i] =
                                Encode([k \in 1..4 |-> anchors'.val[i][k] + o],
                                       out'.batch[n].gt)]_vars

\* get_bbox populated the window (and maybe the anchors) before, and a
\* positive pair of the size the anchors were made for was then encoded
\* against the cache
C13_Witness ==
    /\ out.op = "get_targets"
    /\ windows.has
    /\ anchors.has
    /\ anchors.val = RecenteredOnce(out.size)
    /\ \E n \in DOMAIN out.samples :
        /\ out.samples[n].kind = "pos"
        /\ out.samples[n].ok
        /\ out.samples[n].pos_inds # {}

====
